---- MODULE Spec2Model ----
(***************************************************************************)
(* A state-machine model of PIL/ImagePalette.py.                           *)
(*                                                                         *)
(* Python objects that can be aliased (the palette buffers: bytes,         *)
(* bytearray or list objects) live in `heap` and are referred to by their  *)
(* position in it.  An ImagePalette object is a record of `pals`; its      *)
(* `colors` dict is created afresh by the palette setter and never         *)
(* shared, so it is held by value.  Python sequences are 0-based, TLA+     *)
(* sequences 1-based: At, SetAt and Slice do the shift.                    *)
(***************************************************************************)
EXTENDS Integers, Sequences, FiniteSets, TLC

VARIABLES
    pals,    \* the ImagePalette objects built so far, in order of creation
    heap,    \* the buffer objects: [kind, data]
    ghost,   \* per palette: how it was built and what was asked of it
    last,    \* the last call: its arguments and its outcome
    ncalls,  \* number of method calls made so far
    files,   \* the file objects opened so far: [opener, open, pos, text]
    loading  \* where the running load(filename) stands

vars == <<pals, heap, ghost, last, ncalls, files, loading>>

(***************************************************************************)
(* Program constants (the literals of the source).                         *)
(***************************************************************************)
RampLen == 256
PlaneLen == 256
MaxColors == 256
GreenOffset == 256
BlueOffset == 512
SaveRows == 256
LutLen == 256
LutScale == 255

(***************************************************************************)
(* Bounds of the model.                                                    *)
(***************************************************************************)
MaxCalls == 3
MaxCopies == 1
MaxBlack == 2
MaxWhite == 255
MaxFiles == 1

(***************************************************************************)
(* Python values.                                                          *)
(***************************************************************************)
PyNone == "None"
DirtySet == "1"

\* bool(x) of a str-or-None value: None and "" are falsy.
Truthy(s) == s # PyNone /\ s # ""

Min(a, b) == IF a < b THEN a ELSE b

\* data[i]
At(data, i) == data[i + 1]

\* data[i] = v
SetAt(data, i, v) == [data EXCEPT ![i + 1] = v]

\* data[i:j] for 0 <= i <= j: the slice stops at the end of data.
Slice(data, i, j) == SubSeq(data, i + 1, Min(j, Len(data)))

\* seq * n
Repeat(seq, n) == [i \in 1..(Len(seq) * n) |-> seq[((i - 1) % Len(seq)) + 1]]

\* list(range(n)) / bytearray(range(n))
Range(n) == [i \in 1..n |-> i - 1]

\* d[k] = v on a dict
Put(d, k, v) == (k :> v) @@ d

EmptyDict == [t \in {} |-> 0]

(***************************************************************************)
(* Modes: a mode is the string of its channel letters.                     *)
(***************************************************************************)
RGB == <<"R", "G", "B">>
RGBA == <<"R", "G", "B", "A">>
Modes == {RGB, RGBA}

RECURSIVE ModeStr(_)
ModeStr(mode) == IF mode = <<>> THEN "" ELSE Head(mode) \o ModeStr(Tail(mode))

(***************************************************************************)
(* The palette setter: the colors dict built from a buffer, one record of  *)
(* len(mode) consecutive positions at a time; a later record with the same *)
(* values overwrites the earlier one.                                      *)
(***************************************************************************)
\* The dict left by inserting records lo..hi of data in order: the records
\* of the upper half are inserted after those of the lower half, and win.
RECURSIVE ScanColors(_, _, _, _)
ScanColors(data, mode_len, lo, hi) ==
    IF lo > hi THEN EmptyDict
    ELSE IF lo = hi
    THEN Slice(data, lo * mode_len, lo * mode_len + mode_len) :> lo
    ELSE ScanColors(data, mode_len, ((lo + hi) \div 2) + 1, hi)
         @@ ScanColors(data, mode_len, lo, (lo + hi) \div 2)

\* len(range(0, len(data), mode_len))
RecordCount(data, mode_len) == (Len(data) + mode_len - 1) \div mode_len

palette_setter(mode, data) ==
    ScanColors(data, Len(mode), 0, RecordCount(data, Len(mode)) - 1)

(***************************************************************************)
(* ImagePalette.__init__.  A buffer argument that is None or empty is      *)
(* falsy, and `palette or bytearray(range(256)) * len(self.mode)` then     *)
(* takes the default ramp.  A truthy argument is kept as the object it is. *)
(***************************************************************************)
DefaultPalette(mode) ==
    [kind |-> "bytearray", data |-> Repeat(Range(RampLen), Len(mode))]

init_buffer(mode, palette) ==
    IF palette.kind # PyNone /\ Len(palette.data) > 0 THEN palette
    ELSE DefaultPalette(mode)

\* Mutant of wrong_palette_size: the size argument is not looked at.
wrong_size_ignores_size(mode, buf, size) ==
    Len(mode) * PlaneLen # Len(buf.data)

\* the condition under which __init__ raises ValueError("wrong palette size")
wrong_palette_size(mode, buf, size) ==
    \/ size = 0 /\ Len(mode) * PlaneLen # Len(buf.data)
    \/ size # 0 /\ size # Len(buf.data)

\* The object __init__ leaves when it returns, its buffer being heap object id.
init_object(mode, buf, id) ==
    [mode |-> mode, rawmode |-> PyNone, palette |-> id,
     colors |-> palette_setter(mode, buf.data), dirty |-> PyNone]

(***************************************************************************)
(* ImagePalette.getcolor.                                                  *)
(***************************************************************************)
\* One channel store, self._palette[pos] = color[ch], in a run of stores
\* st = [data, err]: a store after one that raised is not reached.
Store(st, pos, color, ch) ==
    IF st.err # "ok" THEN st
    ELSE IF ch >= Len(color) THEN [st EXCEPT !.err = "IndexError"]
    ELSE IF pos >= Len(st.data) THEN [st EXCEPT !.err = "IndexError"]
    ELSE [st EXCEPT !.data = SetAt(st.data, pos, At(color, ch))]

\* The channel stores and the return of an allocation at index, the key
\* being in s2.colors already.
store_channels(s2, h1, color, index) ==
    LET st0 == [data |-> h1[s2.palette].data, err |-> "ok"]
        st1 == Store(st0, index, color, 0)
        st2 == Store(st1, index + GreenOffset, color, 1)
        st3 == Store(st2, index + BlueOffset, color, 2)
        h2 == [h1 EXCEPT ![s2.palette].data = st3.data]
    IN  IF st3.err # "ok"
        THEN [outcome |-> st3.err, ret |-> -1, self |-> s2, heap |-> h2]
        ELSE [outcome |-> "ok", ret |-> index,
              self |-> [s2 EXCEPT !.dirty = DirtySet], heap |-> h2]

\* Mutant of check_and_store: the capacity test is index > 256.
check_off_by_one(s1, h1, color) ==
    LET index == Cardinality(DOMAIN s1.colors)
    IN  IF index > MaxColors
        THEN [outcome |-> "ValueError", ret |-> -1, self |-> s1, heap |-> h1]
        ELSE store_channels([s1 EXCEPT !.colors = Put(@, color, index)],
                            h1, color, index)

\* Mutant of check_and_store: the key is put in colors before the capacity
\* test.
check_after_insert(s1, h1, color) ==
    LET index == Cardinality(DOMAIN s1.colors)
    IN  IF index >= MaxColors
        THEN [outcome |-> "ValueError", ret |-> -1,
              self |-> [s1 EXCEPT !.colors = Put(@, color, index)], heap |-> h1]
        ELSE store_channels([s1 EXCEPT !.colors = Put(@, color, index)],
                            h1, color, index)

\* index = len(self.colors), the capacity test, the insertion and the stores
check_and_store(s1, h1, color) ==
    LET index == Cardinality(DOMAIN s1.colors)
    IN  IF index >= MaxColors
        THEN [outcome |-> "ValueError", ret |-> -1, self |-> s1, heap |-> h1]
        ELSE store_channels([s1 EXCEPT !.colors = Put(@, color, index)],
                            h1, color, index)

\* A bytes buffer is replaced by a new bytearray of the same values: the
\* heap, and the object referring to the new buffer.
writable_heap(self, h) ==
    IF h[self.palette].kind = "bytes"
    THEN Append(h, [kind |-> "bytearray", data |-> h[self.palette].data])
    ELSE h

writable_self(self, h) ==
    IF h[self.palette].kind = "bytes"
    THEN [self EXCEPT !.palette = Len(h) + 1]
    ELSE self

\* The allocation path, taken on KeyError: self and h as they are left, by
\* return or by the exception.
allocate(self, h, color) ==
    check_and_store(writable_self(self, h), writable_heap(self, h), color)

\* Mutant of lookup: a hit marks the palette dirty.
lookup_marks_dirty(self, h, color) ==
    [outcome |-> "ok", ret |-> self.colors[color],
     self |-> [self EXCEPT !.dirty = DirtySet], heap |-> h]

\* return self.colors[color], the key being there
lookup(self, h, color) ==
    [outcome |-> "ok", ret |-> self.colors[color], self |-> self, heap |-> h]

\* color = [isTuple, items]: a tuple, or some other value (a list).
getcolor(self, h, color) ==
    IF Truthy(self.rawmode)
    THEN [outcome |-> "ValueError", ret |-> -1, self |-> self, heap |-> h]
    ELSE IF color.isTuple
    THEN IF color.items \in DOMAIN self.colors
         THEN lookup(self, h, color.items)
         ELSE allocate(self, h, color.items)
    ELSE [outcome |-> "ValueError", ret |-> -1, self |-> self, heap |-> h]

(***************************************************************************)
(* ImagePalette.copy.  self.palette[:] is a new object for a list or a     *)
(* bytearray; for bytes, which are immutable, it is the same object.       *)
(***************************************************************************)
slice_all(h, id) == IF h[id].kind = "bytes" THEN h ELSE Append(h, h[id])

\* Mutant of slice_id: new.palette = self.palette, the buffer is shared.
slice_id_shared(h, id) == id

slice_id(h, id) == IF h[id].kind = "bytes" THEN id ELSE Len(h) + 1

copy(self, h) ==
    [self |-> [mode |-> self.mode, rawmode |-> self.rawmode,
               palette |-> slice_id(h, self.palette),
               colors |-> palette_setter(self.mode, h[self.palette].data),
               dirty |-> self.dirty],
     heap |-> slice_all(h, self.palette)]

(***************************************************************************)
(* ImagePalette.tobytes and ImagePalette.getdata.  array.array("B", ...)   *)
(* .tobytes() keeps the byte values and their order.                       *)
(***************************************************************************)
tobytes(self, h) ==
    IF Truthy(self.rawmode) THEN [outcome |-> "ValueError", data |-> <<>>]
    ELSE [outcome |-> "ok", data |-> h[self.palette].data]

\* Mutant of getdata: a raw palette's bytes are taken through tobytes.
getdata_through_tobytes(self, h) ==
    [outcome |-> tobytes(self, h).outcome,
     tag |-> IF Truthy(self.rawmode) THEN self.rawmode
             ELSE ModeStr(self.mode) \o ";L",
     data |-> tobytes(self, h).data]

getdata(self, h) ==
    IF Truthy(self.rawmode)
    THEN [outcome |-> "ok", tag |-> self.rawmode, data |-> h[self.palette].data]
    ELSE [outcome |-> tobytes(self, h).outcome,
          tag |-> ModeStr(self.mode) \o ";L", data |-> tobytes(self, h).data]

(***************************************************************************)
(* ImagePalette.save: the lines written to fp.                             *)
(***************************************************************************)
\* the text written for positions j .. stop-1 of one row
RECURSIVE row_values(_, _, _)
row_values(data, j, stop) ==
    IF j >= stop THEN ""
    ELSE (IF j < Len(data) THEN " " \o ToString(At(data, j)) ELSE " 0")
         \o row_values(data, j + 1, stop)

save_row(data, mode, i) ==
    ToString(i) \o row_values(data, i * Len(mode), (i + 1) * Len(mode))

\* Mutant of save: the rawmode test is missing.
save_unchecked(self, h) ==
    [outcome |-> "ok",
     lines |-> <<"# Palette", "# Mode: " \o ModeStr(self.mode)>>
               \o [i \in 1..SaveRows |->
                     save_row(h[self.palette].data, self.mode, i - 1)]]

save(self, h) ==
    IF Truthy(self.rawmode) THEN [outcome |-> "ValueError", lines |-> <<>>]
    ELSE [outcome |-> "ok",
          lines |-> <<"# Palette", "# Mode: " \o ModeStr(self.mode)>>
                    \o [i \in 1..SaveRows |->
                          save_row(h[self.palette].data, self.mode, i - 1)]]

(***************************************************************************)
(* Factories.                                                              *)
(***************************************************************************)
\* wedge: the buffer handed to ImagePalette
wedge(mode) == [kind |-> "list", data |-> Repeat(Range(RampLen), Len(mode))]

\* raw: the object built by ImagePalette() with rawmode, palette and dirty
\* then assigned; the palette setter runs with the default mode "RGB".
raw(rawmode, id, data) ==
    [mode |-> RGB, rawmode |-> rawmode, palette |-> id,
     colors |-> palette_setter(RGB, data), dirty |-> DirtySet]

\* Mutant of make_linear_lut: the entries are rounded to the nearest integer.
make_linear_lut_rounded(black, white) ==
    IF black = 0
    THEN [outcome |-> "ok",
          lut |-> [i \in 1..LutLen |->
                      (2 * white * (i - 1) + LutScale) \div (2 * LutScale)]]
    ELSE [outcome |-> "NotImplementedError", lut |-> <<>>]

\* make_linear_lut(black, white); // is floor division, as \div is
make_linear_lut(black, white) ==
    IF black = 0
    THEN [outcome |-> "ok",
          lut |-> [i \in 1..LutLen |-> (white * (i - 1)) \div LutScale]]
    ELSE [outcome |-> "NotImplementedError", lut |-> <<>>]

(***************************************************************************)
(* The inputs the model draws from.                                        *)
(***************************************************************************)
Zeros(n) == [i \in 1..n |-> 0]

\* n positions holding records of w channels: record A = 10, 11, ... at
\* records 0 and 2, record B = 40, 41, ... everywhere else.
ABA(n, w) ==
    [i \in 1..n |-> IF ((i - 1) \div w) \in {0, 2}
                    THEN 10 + ((i - 1) % w) ELSE 40 + ((i - 1) % w)]

\* the default ramp followed by one more record, 9, 9, 9
LongData(mode) == Repeat(Range(RampLen), Len(mode)) \o <<9, 9, 9>>

Supplied(mode) ==
    { [kind |-> PyNone, data |-> <<>>],
      [kind |-> "list", data |-> <<>>],
      [kind |-> "bytes", data |-> Zeros(PlaneLen * Len(mode))],
      [kind |-> "list", data |-> ABA(PlaneLen * Len(mode), Len(mode))],
      [kind |-> "list", data |-> ABA(9, Len(mode))],
      [kind |-> "bytearray", data |-> LongData(mode)] }

Sizes == {0, 9, 768, 771}

RawTags == {"X;16", ""}

RawData == {<<1, 2, 3, 4, 5, 6>>, LongData(RGB)}

Tup(items) == [isTuple |-> TRUE, items |-> items]

Colors ==
    { Tup(<<0, 1, 2>>), Tup(<<7, 7, 7>>), Tup(<<7, 7>>), Tup(<<7, 7, 7, 7>>),
      [isTuple |-> FALSE, items |-> <<7, 7, 7>>] }

(***************************************************************************)
(* The state machine.                                                      *)
(***************************************************************************)
NoCall ==
    [op |-> "none", pal |-> 0, outcome |-> "none", ret |-> -1, tag |-> "",
     data |-> <<>>, lines |-> <<>>, color |-> Tup(<<>>), known |-> FALSE,
     nbefore |-> 0, mode |-> <<>>, given |-> FALSE, buflen |-> 0, size |-> 0,
     black |-> 0, white |-> 0]

\* origin: how the palette was built; n0: len(colors) when it was built;
\* nfresh: the getcolor calls made with a len(mode)-tuple that was no key;
\* pure: every call on it so far was such a getcolor call;
\* clean: every getcolor call on it (for a copy: and on its source before the
\* copy) passed a len(mode)-tuple and returned.
NewGhost(origin, self, clean) ==
    [origin |-> origin, n0 |-> Cardinality(DOMAIN self.colors),
     nfresh |-> 0, pure |-> TRUE, clean |-> clean]

\* no load(filename) is running or has run
NotLoading ==
    [state |-> "idle", fp |-> 0, k |-> 1, attempts |-> <<>>,
     result |-> <<>>, error |-> "", message |-> ""]

Init ==
    /\ pals = <<>>
    /\ heap = <<>>
    /\ ghost = <<>>
    /\ last = NoCall
    /\ ncalls = 0
    /\ files = <<>>
    /\ loading = NotLoading

\* ImagePalette(mode, palette, size), called as op
Build(op, origin, mode, palette, size) ==
    /\ last.op = "none"
    /\ LET buf == init_buffer(mode, palette)
           bad == wrong_palette_size(mode, buf, size)
           self == init_object(mode, buf, 1)
       IN  /\ last' = [NoCall EXCEPT !.op = op, !.mode = mode,
                           !.given = (palette.kind # PyNone),
                           !.buflen = Len(palette.data), !.size = size,
                           !.outcome = IF bad THEN "ValueError" ELSE "ok",
                           !.pal = IF bad THEN 0 ELSE 1]
           /\ IF bad THEN UNCHANGED <<pals, heap, ghost>>
              ELSE /\ heap' = <<buf>>
                   /\ pals' = <<self>>
                   /\ ghost' = <<NewGhost(origin, self, TRUE)>>
    /\ UNCHANGED <<ncalls, files, loading>>

Construct(mode, palette, size) ==
    Build("init", IF palette.kind = PyNone THEN "default" ELSE "explicit",
          mode, palette, size)

Wedge(mode) == Build("wedge", "wedge", mode, wedge(mode), 0)

Raw(rawmode, data) ==
    /\ last.op = "none"
    /\ heap' = <<[kind |-> "bytes", data |-> data]>>
    /\ pals' = <<raw(rawmode, 1, data)>>
    /\ ghost' = <<NewGhost("raw", raw(rawmode, 1, data), TRUE)>>
    /\ last' = [NoCall EXCEPT !.op = "raw", !.pal = 1, !.outcome = "ok",
                    !.tag = rawmode, !.data = data, !.buflen = Len(data)]
    /\ UNCHANGED <<ncalls, files, loading>>

\* a getcolor call with a tuple of len(mode) values that is not yet a key
Fresh(self, color) ==
    /\ color.isTuple
    /\ Len(color.items) = Len(self.mode)
    /\ color.items \notin DOMAIN self.colors

GetColor(p, color) ==
    /\ p \in 1..Len(pals)
    /\ ncalls < MaxCalls
    /\ LET r == getcolor(pals[p], heap, color)
       IN  /\ pals' = [pals EXCEPT ![p] = r.self]
           /\ heap' = r.heap
           /\ last' = [NoCall EXCEPT !.op = "getcolor", !.pal = p,
                           !.outcome = r.outcome, !.ret = r.ret, !.color = color,
                           !.known = (color.isTuple
                                      /\ color.items \in DOMAIN pals[p].colors),
                           !.nbefore = Cardinality(DOMAIN pals[p].colors)]
           /\ ghost' = [ghost EXCEPT
                           ![p].pure = @ /\ Fresh(pals[p], color),
                           ![p].clean = /\ @
                                        /\ color.isTuple
                                        /\ Len(color.items) = Len(pals[p].mode)
                                        /\ r.outcome = "ok",
                           ![p].nfresh = IF Fresh(pals[p], color) THEN @ + 1 ELSE @]
    /\ ncalls' = ncalls + 1
    /\ UNCHANGED <<files, loading>>

Copy(p) ==
    /\ p \in 1..Len(pals)
    /\ ncalls < MaxCalls
    /\ Len(pals) < 1 + MaxCopies
    /\ LET r == copy(pals[p], heap)
       IN  /\ pals' = Append(pals, r.self)
           /\ heap' = r.heap
           /\ ghost' = Append([ghost EXCEPT ![p].pure = FALSE],
                              NewGhost("copy", r.self, ghost[p].clean))
           /\ last' = [NoCall EXCEPT !.op = "copy", !.pal = p, !.outcome = "ok",
                           !.ret = Len(pals) + 1]
    /\ ncalls' = ncalls + 1
    /\ UNCHANGED <<files, loading>>

\* a call that reads palette p only
Reads(p, call) ==
    /\ p \in 1..Len(pals)
    /\ ncalls < MaxCalls
    /\ last' = call
    /\ ghost' = [ghost EXCEPT ![p].pure = FALSE]
    /\ ncalls' = ncalls + 1
    /\ UNCHANGED <<pals, heap, files, loading>>

ToBytes(p) ==
    /\ p \in 1..Len(pals)
    /\ Reads(p, [NoCall EXCEPT !.op = "tobytes", !.pal = p,
                     !.outcome = tobytes(pals[p], heap).outcome,
                     !.data = tobytes(pals[p], heap).data])

GetData(p) ==
    /\ p \in 1..Len(pals)
    /\ Reads(p, [NoCall EXCEPT !.op = "getdata", !.pal = p,
                     !.outcome = getdata(pals[p], heap).outcome,
                     !.tag = getdata(pals[p], heap).tag,
                     !.data = getdata(pals[p], heap).data])

Save(p) ==
    /\ p \in 1..Len(pals)
    /\ Reads(p, [NoCall EXCEPT !.op = "save", !.pal = p,
                     !.outcome = save(pals[p], heap).outcome,
                     !.lines = save(pals[p], heap).lines])

Next ==
    \/ \E mode \in Modes : \E palette \in Supplied(mode) : \E size \in Sizes :
           Construct(mode, palette, size)
    \/ \E mode \in Modes : Wedge(mode)
    \/ \E rawmode \in RawTags : \E data \in RawData : Raw(rawmode, data)
    \/ \E p \in 1..MaxCopies + 1 : \E color \in Colors : GetColor(p, color)
    \/ \E p \in 1..MaxCopies + 1 : Copy(p)
    \/ \E p \in 1..MaxCopies + 1 : ToBytes(p)
    \/ \E p \in 1..MaxCopies + 1 : GetData(p)
    \/ \E p \in 1..MaxCopies + 1 : Save(p)

Spec == Init /\ [][Next]_vars

(***************************************************************************)
(* The channel LUT generator, applied to every pair of arguments.          *)
(***************************************************************************)
Blacks == 0..MaxBlack
Whites == 0..MaxWhite

LutInit ==
    /\ pals = <<>>
    /\ heap = <<>>
    /\ ghost = <<>>
    /\ ncalls = 0
    /\ files = <<>>
    /\ loading = NotLoading
    /\ \E black \in Blacks : \E white \in Whites :
           last = [NoCall EXCEPT !.black = black, !.white = white]

MakeLinearLut ==
    /\ last.op = "none"
    /\ last' = [last EXCEPT
                    !.op = "make_linear_lut",
                    !.outcome = make_linear_lut(last.black, last.white).outcome,
                    !.data = make_linear_lut(last.black, last.white).lut]
    /\ UNCHANGED <<pals, heap, ghost, ncalls, files, loading>>

LutNext == MakeLinearLut

LutSpec == LutInit /\ [][LutNext]_vars

(***************************************************************************)
(* Files: save(fp) called with a path or with a file object, and           *)
(* load(filename).  The three loaders are collaborators: what a loader     *)
(* does with the stream is drawn from LoaderResults.                       *)
(***************************************************************************)
\* the list the for statement of load runs over
Handlers == <<"GimpPaletteFile", "GimpGradientFile", "PaletteFile">>

\* the number of bytes a loader has read when it returns or raises
ReadLens == {12}

\* a loader returns a list, empty or not, or raises; OSError stands for an
\* input/output error of the stream it reads
LoaderResults ==
    {[exc |-> "none", lut |-> lut, nread |-> n] :
        lut \in {<<>>, <<1, 2, 3>>}, n \in ReadLens}
    \cup {[exc |-> e, lut |-> <<>>, nread |-> n] :
        e \in {"SyntaxError", "ValueError", "OSError"}, n \in ReadLens}

\* the lines of the text at whose first write the file fails
FaultLines == {1, 3, 258}

\* where open or write fails during save, if anywhere
Faults ==
    {[at |-> "none", line |-> 0], [at |-> "open", line |-> 0]}
    \cup {[at |-> "write", line |-> k] : k \in FaultLines}

\* what save is handed: a str, or an open file object
Targets == {"path", "file"}

NewFile(opener) == [opener |-> opener, open |-> TRUE, pos |-> 0, text |-> <<>>]

\* Mutant of rewind: the stream is left where the previous loader stopped.
rewind_missing(pos) == pos

\* fp.seek(0)
rewind(pos) == 0

\* `if lut:`
lut_truthy(lut) == Len(lut) > 0

\* except (SyntaxError, ValueError)
caught(exc) == exc \in {"SyntaxError", "ValueError"}

\* how one pass through the body of the for statement ends
load_iteration(res) ==
    IF res.exc = "none"
    THEN IF lut_truthy(res.lut) THEN "break" ELSE "continue"
    ELSE IF caught(res.exc) THEN "continue"
    ELSE "propagate"

\* save(fp) of palette p, where fp is a path or a file object, and where
\* open or a write may fail
SaveFile(p, target, fault) ==
    /\ p \in 1..Len(pals)
    /\ ncalls < MaxCalls
    /\ Len(files) < MaxFiles
    /\ loading.state # "open"
    /\ target = "file" => fault.at # "open"
    /\ LET r == save(pals[p], heap)
           f == NewFile(IF target = "path" THEN "save" ELSE "caller")
           call == [NoCall EXCEPT !.op = "save", !.pal = p]
       IN  IF r.outcome # "ok"
           THEN \* raised before fp is looked at
                /\ last' = [call EXCEPT !.outcome = r.outcome]
                /\ files' = IF target = "file" THEN Append(files, f) ELSE files
           ELSE IF fault.at = "open"
           THEN /\ last' = [call EXCEPT !.outcome = "OSError",
                                        !.tag = "open failed"]
                /\ files' = files
           ELSE IF fault.at = "write"
           THEN \* the write raises: fp.close() is not reached
                /\ last' = [call EXCEPT
                               !.outcome = "OSError", !.tag = "write failed",
                               !.lines = SubSeq(r.lines, 1, fault.line - 1)]
                /\ files' = Append(files,
                               [f EXCEPT !.text = SubSeq(r.lines, 1,
                                                         fault.line - 1)])
           ELSE /\ last' = [call EXCEPT !.outcome = "ok", !.lines = r.lines]
                /\ files' = Append(files,
                               [f EXCEPT !.text = r.lines, !.open = FALSE])
    /\ ghost' = [ghost EXCEPT ![p].pure = FALSE]
    /\ ncalls' = ncalls + 1
    /\ UNCHANGED <<pals, heap, loading>>

\* load(filename): `with open(filename, "rb") as fp`
LoadOpen(fails) ==
    /\ loading.state # "open"
    /\ Len(files) < MaxFiles
    /\ IF fails
       THEN /\ files' = files
            /\ loading' = [NotLoading EXCEPT !.state = "raised",
                                             !.error = "OSError",
                                             !.message = "open failed"]
            /\ last' = [NoCall EXCEPT !.op = "load", !.outcome = "OSError",
                                      !.tag = "open failed"]
       ELSE /\ files' = Append(files, NewFile("load"))
            /\ loading' = [NotLoading EXCEPT !.state = "open",
                                             !.fp = Len(files) + 1]
            /\ last' = [NoCall EXCEPT !.op = "load", !.outcome = "running"]
    /\ UNCHANGED <<pals, heap, ghost, ncalls>>

\* one pass through the for statement of load, and what follows it when the
\* pass is the last: the break and `return lut`, the else clause of the for
\* statement, or the exception leaving the function; the with statement
\* closes fp on each of these ways out
LoadAttempt(res) ==
    /\ loading.state = "open"
    /\ LET fp == loading.fp
           start == rewind(files[fp].pos)
           how == load_iteration(res)
           goes_on == how = "continue" /\ loading.k < Len(Handlers)
       IN  /\ files' = [files EXCEPT ![fp].pos = start + res.nread,
                                     ![fp].open = goes_on]
           /\ loading' = [loading EXCEPT
                             !.attempts = Append(@, [loader |-> Handlers[loading.k],
                                                     start |-> start,
                                                     exc |-> res.exc,
                                                     lut |-> res.lut]),
                             !.k = IF goes_on THEN @ + 1 ELSE @,
                             !.state = IF goes_on THEN "open"
                                       ELSE IF how = "break" THEN "returned"
                                       ELSE "raised",
                             !.result = IF how = "break" THEN res.lut ELSE <<>>,
                             !.error = IF goes_on \/ how = "break" THEN ""
                                       ELSE IF how = "continue" THEN "OSError"
                                       ELSE res.exc,
                             !.message = IF goes_on \/ how = "break" THEN ""
                                         ELSE IF how = "continue"
                                         THEN "cannot load palette"
                                         ELSE "read failed"]
           /\ last' = IF goes_on THEN last
                      ELSE IF how = "break"
                      THEN [last EXCEPT !.outcome = "ok", !.data = res.lut]
                      ELSE IF how = "continue"
                      THEN [last EXCEPT !.outcome = "OSError",
                                        !.tag = "cannot load palette"]
                      ELSE [last EXCEPT !.outcome = res.exc,
                                        !.tag = "read failed"]
    /\ UNCHANGED <<pals, heap, ghost, ncalls>>

FileNext ==
    \/ Wedge(RGB)
    \/ \E data \in RawData : Raw("X;16", data)
    \/ \E p \in 1..MaxCopies + 1 : \E target \in Targets : \E fault \in Faults :
           SaveFile(p, target, fault)
    \/ \E fails \in BOOLEAN : LoadOpen(fails)
    \/ \E res \in LoaderResults : LoadAttempt(res)

FileSpec == Init /\ [][FileNext]_vars

(***************************************************************************)
(* Vocabulary of the properties.                                           *)
(***************************************************************************)
\* the contents of palette p's buffer
BufferOf(p) == heap[pals[p].palette].data

NonRaw(p) == ~Truthy(pals[p].rawmode)

NumColors(p) == Cardinality(DOMAIN pals[p].colors)

\* the step is a getcolor call
GetColorStep == ncalls' = ncalls + 1 /\ last'.op = "getcolor"

\* the step leaves palette p's colors, dirty and buffer contents as they were
Untouched(p) ==
    /\ pals'[p].colors = pals[p].colors
    /\ pals'[p].dirty = pals[p].dirty
    /\ heap'[pals'[p].palette].data = heap[pals[p].palette].data

(***************************************************************************)
(* C1.  As stated: on a palette built by ImagePalette() with no buffer     *)
(* argument, getcolor calls with pairwise distinct tuples that are not yet *)
(* keys each succeed and return n0, n0 + 1, ... in call order, n0 being    *)
(* len(colors) right after construction.                                   *)
(***************************************************************************)
C1_AllocationOrderOnDefault ==
    \A p \in 1..Len(pals) :
        (/\ last.op = "getcolor" /\ last.pal = p
         /\ ghost[p].origin = "default"
         /\ ghost[p].pure)
        => /\ last.outcome = "ok"
           /\ last.ret = ghost[p].n0 + ghost[p].nfresh - 1

\* C1 as amended: ImagePalette() holds 256 colors right after construction,
\* so every getcolor call with a tuple that is not yet a key raises
\* ValueError and allocates nothing.
C1_DefaultPaletteIsFull ==
    \A p \in 1..Len(pals) :
        (/\ last.op = "getcolor" /\ last.pal = p
         /\ ghost[p].origin = "default" /\ pals[p].mode = RGB
         /\ last.color.isTuple /\ ~last.known)
        => /\ last.outcome = "ValueError"
           /\ ghost[p].n0 = MaxColors
           /\ last.nbefore = MaxColors
           /\ NumColors(p) = MaxColors
           /\ last.color.items \notin DOMAIN pals[p].colors

C1_Witness ==
    /\ last.op = "getcolor" /\ last.pal = 1
    /\ ghost[1].origin = "default" /\ pals[1].mode = RGB
    /\ last.color = Tup(<<7, 7, 7>>) /\ ~last.known
    /\ last.outcome = "ValueError"

(***************************************************************************)
(* C2.  getcolor is an idempotent lookup: on a non-raw palette a tuple     *)
(* that is a key of colors gets colors[t] back and buffer, colors and      *)
(* dirty stay as they were; so a getcolor(t) right after a successful      *)
(* getcolor(t) on the same palette returns the same index and colors does  *)
(* not grow.                                                               *)
(***************************************************************************)
C2_IdempotentLookup ==
    [][GetColorStep =>
         /\ (/\ NonRaw(last'.pal) /\ last'.color.isTuple
             /\ last'.color.items \in DOMAIN pals[last'.pal].colors)
            => /\ last'.outcome = "ok"
               /\ last'.ret = pals[last'.pal].colors[last'.color.items]
               /\ Untouched(last'.pal)
               /\ pals' = pals
         /\ (/\ last.op = "getcolor" /\ last.outcome = "ok"
             /\ last'.pal = last.pal /\ last'.color = last.color)
            => /\ last'.outcome = "ok"
               /\ last'.ret = last.ret
               /\ pals'[last'.pal].colors = pals[last'.pal].colors]_vars

\* a tuple no construction puts in colors is looked up after its allocation
C2_Witness ==
    /\ last.op = "getcolor" /\ last.outcome = "ok" /\ last.known
    /\ last.color = Tup(<<7, 7, 7>>)
    /\ last.ret = pals[last.pal].colors[<<7, 7, 7>>]

(***************************************************************************)
(* C3.  As stated: in every state of a non-raw palette, every key t of     *)
(* colors with index k is what the channel-planar lookup of k gives:       *)
(* buffer[c*256 + k] = t[c] for every channel c.                           *)
(***************************************************************************)
PlanarAgrees(p, t) ==
    \A c \in 0..(Len(pals[p].mode) - 1) :
        /\ c < Len(t)
        /\ c * PlaneLen + pals[p].colors[t] < Len(BufferOf(p))
        /\ At(BufferOf(p), c * PlaneLen + pals[p].colors[t]) = At(t, c)

C3_ColorsMatchPlanarBuffer ==
    \A p \in 1..Len(pals) :
        NonRaw(p) => \A t \in DOMAIN pals[p].colors : PlanarAgrees(p, t)

(***************************************************************************)
(* C4.  As stated: colors never holds a duplicate index value: no two      *)
(* distinct keys map to the same index, in any palette built from an       *)
(* accepted buffer, after any getcolor calls that passed len(mode)-tuples  *)
(* and returned.                                                           *)
(***************************************************************************)
C4_NoDuplicateIndex ==
    \A p \in 1..Len(pals) :
        ghost[p].clean
        => Cardinality({pals[p].colors[t] : t \in DOMAIN pals[p].colors})
               = NumColors(p)

(***************************************************************************)
(* C5.  As stated: len(colors) <= 256 in every state of every palette,     *)
(* however it was built.                                                   *)
(***************************************************************************)
C5_AtMost256Colors == \A p \in 1..Len(pals) : NumColors(p) <= MaxColors

(***************************************************************************)
(* C6.  Capacity failure is atomic: on a non-raw palette whose colors      *)
(* holds 256 entries, getcolor(t) for a tuple t that is no key raises      *)
(* ValueError and leaves colors, the buffer contents and dirty as they     *)
(* were.                                                                   *)
(***************************************************************************)
C6_CapacityFailureIsAtomic ==
    [][GetColorStep =>
         ((/\ NonRaw(last'.pal) /\ last'.color.isTuple
           /\ last'.color.items \notin DOMAIN pals[last'.pal].colors
           /\ NumColors(last'.pal) = MaxColors)
          => /\ last'.outcome = "ValueError"
             /\ Untouched(last'.pal))]_vars

C6_Witness ==
    /\ last.op = "getcolor" /\ last.outcome = "ValueError"
    /\ NonRaw(last.pal) /\ last.color.isTuple /\ ~last.known
    /\ last.nbefore = MaxColors
    /\ NumColors(last.pal) = MaxColors

(***************************************************************************)
(* C7.  As stated: for every supplied buffer of any length, from 0 upward, *)
(* ImagePalette(mode, buffer, size) raises ValueError if size = 0 and      *)
(* len(buffer) # 256*len(mode), or size # 0 and len(buffer) # size, and    *)
(* succeeds otherwise.                                                     *)
(***************************************************************************)
C7_WrongLengthAlwaysFails ==
    (last.op = "init" /\ last.given)
    => (last.outcome = "ValueError"
        <=> \/ last.size = 0 /\ last.buflen # PlaneLen * Len(last.mode)
            \/ last.size # 0 /\ last.buflen # last.size)

\* the length of the buffer __init__ checks: that of a supplied non-empty
\* buffer, that of the default ramp otherwise
LengthInEffect ==
    IF last.given /\ last.buflen > 0 THEN last.buflen
    ELSE RampLen * Len(last.mode)

\* C7 as amended: a supplied non-empty buffer is checked as stated; an
\* empty buffer is replaced by the default ramp, like an omitted one, and
\* it is the ramp's length, 256*len(mode), that is checked against size.
C7_LengthInEffectIsChecked ==
    last.op = "init"
    => /\ last.outcome = "ValueError"
          <=> \/ last.size = 0 /\ LengthInEffect # PlaneLen * Len(last.mode)
              \/ last.size # 0 /\ LengthInEffect # last.size
       /\ last.outcome = "ValueError" => pals = <<>>
       /\ last.outcome # "ValueError"
          => /\ Len(pals) = 1
             /\ Len(BufferOf(1)) = LengthInEffect
             /\ pals[1].mode = last.mode

\* an empty buffer is accepted
C7_Witness ==
    /\ last.op = "init" /\ last.given /\ last.buflen = 0
    /\ last.outcome = "ok"
    /\ Len(BufferOf(1)) = RampLen * Len(last.mode)

(***************************************************************************)
(* C8.  copy() yields an independent palette: a getcolor call on one       *)
(* palette leaves the buffer, colors and dirty of every other palette,     *)
(* its copies and the palette it was copied from, as they were.            *)
(***************************************************************************)
C8_CopyIsIndependent ==
    [][GetColorStep =>
         \A q \in 1..Len(pals) :
             q # last'.pal => (pals'[q] = pals[q] /\ Untouched(q))]_vars

\* an allocation in the copy has written to the copy's buffer
C8_Witness ==
    /\ Len(pals) = 2
    /\ ghost[2].origin = "copy"
    /\ last.op = "getcolor" /\ last.pal = 2
    /\ last.outcome = "ok" /\ ~last.known
    /\ BufferOf(2) # BufferOf(1)

(***************************************************************************)
(* C9.  As stated: save on a non-raw palette writes 258 lines: the two     *)
(* header lines, then for each index i in 0..255 the index followed by     *)
(* buffer[c*256 + i] for each channel c (0 for a position past the end);   *)
(* for wedge("RGB") line 3 is "0 0 0 0" and line 258 "255 255 255 255".    *)
(***************************************************************************)
RECURSIVE PlanarValues(_, _, _, _)
PlanarValues(data, channels, i, c) ==
    IF c >= channels THEN ""
    ELSE (IF c * PlaneLen + i < Len(data)
          THEN " " \o ToString(At(data, c * PlaneLen + i)) ELSE " 0")
         \o PlanarValues(data, channels, i, c + 1)

C9_SaveWritesPlanarRows ==
    (last.op = "save" /\ last.outcome = "ok")
    => /\ Len(last.lines) = SaveRows + 2
       /\ last.lines[1] = "# Palette"
       /\ last.lines[2] = "# Mode: " \o ModeStr(pals[last.pal].mode)
       /\ \A i \in 0..(SaveRows - 1) :
              last.lines[i + 3]
                  = ToString(i) \o PlanarValues(BufferOf(last.pal),
                                                Len(pals[last.pal].mode), i, 0)
       /\ (ghost[last.pal].origin = "wedge" /\ pals[last.pal].mode = RGB)
          => /\ last.lines[3] = "0 0 0 0"
             /\ last.lines[258] = "255 255 255 255"

(***************************************************************************)
(* C10.  As stated: getcolor(color) on a non-raw palette raises ValueError *)
(* and leaves colors, buffer and dirty as they were whenever color is not  *)
(* a tuple, or is a tuple whose length differs from len(mode).             *)
(***************************************************************************)
C10_BadColorFailsCleanly ==
    [][GetColorStep =>
         ((/\ NonRaw(last'.pal)
           /\ \/ ~last'.color.isTuple
              \/ Len(last'.color.items) # Len(pals[last'.pal].mode))
          => /\ last'.outcome = "ValueError"
             /\ Untouched(last'.pal))]_vars

(***************************************************************************)
(* C11.  Every channel-level operation on a raw palette fails without      *)
(* mutating: on a palette whose rawmode is set (the test the code makes:   *)
(* `if self.rawmode`), tobytes, getcolor and save each raise ValueError    *)
(* and leave mode, rawmode, buffer, colors and dirty as they were; save    *)
(* writes nothing and tobytes returns nothing.                             *)
(***************************************************************************)
C11_RawPaletteRejectsChannelOps ==
    [][(/\ ncalls' = ncalls + 1
        /\ last'.op \in {"tobytes", "getcolor", "save"}
        /\ Truthy(pals[last'.pal].rawmode))
       => /\ last'.outcome = "ValueError"
          /\ pals' = pals
          /\ heap' = heap
          /\ last'.lines = <<>>
          /\ last'.data = <<>>
          /\ last'.ret = -1]_vars

\* save has been refused on a raw palette that holds records
C11_Witness ==
    /\ last.op = "save" /\ last.outcome = "ValueError"
    /\ pals[last.pal].rawmode = "X;16"
    /\ NumColors(last.pal) > 0
    /\ last.lines = <<>>

(***************************************************************************)
(* C12.  As stated: for every raw-mode tag and every data value of any     *)
(* length, raw(tag, data) builds, without size validation, a palette with  *)
(* rawmode = tag and dirty set, whose getdata() returns (tag, data).       *)
(***************************************************************************)
C12_RawRoundTrip ==
    /\ last.op = "raw"
       => /\ last.outcome = "ok"
          /\ pals[1].rawmode = last.tag
          /\ pals[1].dirty = DirtySet
          /\ BufferOf(1) = last.data
    /\ (last.op = "getdata" /\ ghost[last.pal].origin = "raw")
       => /\ last.outcome = "ok"
          /\ last.tag = pals[last.pal].rawmode
          /\ last.data = BufferOf(last.pal)

\* C12 as amended: the same for every non-empty tag.  (With an empty tag
\* rawmode is falsy and getdata answers as for a palette that is not raw.)
C12_RawRoundTripNonEmptyTag ==
    /\ last.op = "raw"
       => /\ last.outcome = "ok"
          /\ pals[1].rawmode = last.tag
          /\ pals[1].dirty = DirtySet
          /\ BufferOf(1) = last.data
          /\ heap[1].data = last.data
    /\ (/\ last.op = "getdata" /\ ghost[last.pal].origin = "raw"
        /\ pals[last.pal].rawmode # "")
       => /\ last.outcome = "ok"
          /\ last.tag = pals[last.pal].rawmode
          /\ last.tag \in RawTags
          /\ last.data = BufferOf(last.pal)
          /\ last.data = heap[1].data
          /\ last.data \in RawData

\* getdata on a raw palette whose data is longer than 256 records
C12_Witness ==
    /\ last.op = "getdata" /\ ghost[last.pal].origin = "raw"
    /\ last.outcome = "ok" /\ last.tag = "X;16"
    /\ Len(last.data) > PlaneLen * Len(RGB)

(***************************************************************************)
(* C14.  make_linear_lut(0, white) returns the 256-entry list whose entry  *)
(* i is the floor of white*i/255, for every white from 0 up: the identity  *)
(* 0..255 for white = 255 and 256 zeros for white = 0;                     *)
(* make_linear_lut(black, white) with black # 0 fails with                 *)
(* NotImplementedError and returns nothing.                                *)
(***************************************************************************)
C14_LinearLut ==
    last.op = "make_linear_lut"
    => IF last.black = 0
       THEN /\ last.outcome = "ok"
            /\ Len(last.data) = 256
            /\ \A i \in 0..255 :
                  /\ 255 * At(last.data, i) <= last.white * i
                  /\ last.white * i < 255 * (At(last.data, i) + 1)
            /\ last.white = 255 => \A i \in 0..255 : At(last.data, i) = i
            /\ last.white = 0 => \A i \in 0..255 : At(last.data, i) = 0
       ELSE /\ last.outcome = "NotImplementedError"
            /\ last.data = <<>>

\* a white for which the division is not exact: 128 * 3 // 255 = 1
C14_Witness ==
    /\ last.op = "make_linear_lut" /\ last.outcome = "ok"
    /\ last.black = 0 /\ last.white = 128
    /\ At(last.data, 3) = 1 /\ At(last.data, 255) = 128

(***************************************************************************)
(* C13.  load tries the loaders in the order GimpPaletteFile,              *)
(* GimpGradientFile, PaletteFile, each from offset 0; a loader is tried    *)
(* only after every loader before it raised SyntaxError or ValueError or   *)
(* returned an empty result; load returns the first non-empty result and   *)
(* tries no loader after it; and it raises OSError("cannot load palette")  *)
(* exactly when all three were tried and none gave a non-empty result.     *)
(***************************************************************************)
Yields(a) == a.exc = "none" /\ a.lut # <<>>

FallsThrough(a) ==
    \/ a.exc \in {"SyntaxError", "ValueError"}
    \/ a.exc = "none" /\ a.lut = <<>>

C13_LoadTriesLoadersInOrder ==
    LET A == loading.attempts
        n == Len(loading.attempts)
    IN  /\ n <= 3
        /\ \A i \in 1..n :
              /\ A[i].loader =
                    <<"GimpPaletteFile", "GimpGradientFile", "PaletteFile">>[i]
              /\ A[i].start = 0
              /\ i < n => FallsThrough(A[i])
        /\ loading.state = "open"
           => /\ \A i \in 1..n : FallsThrough(A[i])
              /\ n < 3
              /\ loading.k = n + 1
              /\ files[loading.fp].open
        /\ loading.state = "returned"
           <=> (n > 0 /\ Yields(A[n]))
        /\ loading.state = "returned"
           => /\ loading.result = A[n].lut
              /\ loading.error = ""
              /\ last.op = "load" => last.outcome = "ok" /\ last.data = A[n].lut
        /\ (/\ loading.state = "raised"
            /\ loading.error = "OSError"
            /\ loading.message = "cannot load palette")
           <=> (n = 3 /\ \A i \in 1..n : FallsThrough(A[i]))

\* the second loader's result is returned after the first raised SyntaxError
\* and left the stream at offset 12; the third loader was not tried
C13_Witness ==
    /\ loading.state = "returned"
    /\ Len(loading.attempts) = 2
    /\ loading.attempts[1].exc = "SyntaxError"
    /\ loading.attempts[2].start = 0
    /\ loading.result = <<1, 2, 3>>
    /\ files[loading.fp].pos = 12

(***************************************************************************)
(* C15.  As stated: colors is a function of the buffer: on a non-raw       *)
(* palette, after any getcolor calls that passed len(mode)-tuples and      *)
(* returned, the scan the palette setter makes of the current buffer gives *)
(* exactly the colors kept by getcolor.                                    *)
(***************************************************************************)
C15_ColorsAreScanOfBuffer ==
    \A p \in 1..Len(pals) :
        (NonRaw(p) /\ ghost[p].clean)
        => pals[p].colors = palette_setter(pals[p].mode, BufferOf(p))

(***************************************************************************)
(* C16.  As stated: when getcolor(t) on a non-raw palette of C = len(mode) *)
(* channels allocates index k for a C-tuple t, then afterwards             *)
(* buffer[c*256 + k] = t[c] for every channel c in 0..C-1, colors[t] = k,  *)
(* dirty is set, and no other buffer position and no other entry of colors *)
(* has changed.                                                            *)
(***************************************************************************)
C16_AllocationWritesEveryChannel ==
    [][(/\ GetColorStep
        /\ NonRaw(last'.pal)
        /\ Fresh(pals[last'.pal], last'.color)
        /\ last'.outcome = "ok")
       => LET q == last'.pal
              t == last'.color.items
              k == last'.ret
              C == Len(pals[q].mode)
              old == heap[pals[q].palette].data
              new == heap'[pals'[q].palette].data
          IN  /\ Len(new) = Len(old)
              /\ \A c \in 0..(C - 1) :
                    /\ c * 256 + k < Len(new)
                    /\ At(new, c * 256 + k) = At(t, c)
              /\ \A j \in 0..(Len(old) - 1) :
                    (\A c \in 0..(C - 1) : j # c * 256 + k)
                    => At(new, j) = At(old, j)
              /\ pals'[q].colors = Put(pals[q].colors, t, k)
              /\ pals'[q].dirty = DirtySet]_vars

(***************************************************************************)
(* C17.  As stated: on a non-raw palette, each getcolor call with a        *)
(* len(mode)-tuple that is no key, made while len(colors) < 256, returns   *)
(* len(colors) as it was before the call.                                  *)
(***************************************************************************)
C17_FirstComeFirstServed ==
    [][(/\ GetColorStep
        /\ NonRaw(last'.pal)
        /\ Fresh(pals[last'.pal], last'.color)
        /\ NumColors(last'.pal) < 256)
       => /\ last'.outcome = "ok"
          /\ last'.ret = NumColors(last'.pal)]_vars

(***************************************************************************)
(* C18.  As stated: save(path) and load(path) release the file they open   *)
(* on every way out: once the operation has ended, by return or by any     *)
(* exception, the file it opened is closed.                                *)
(***************************************************************************)
Ended(i) == ~(loading.state = "open" /\ loading.fp = i)

C18_OpenedFilesAreClosed ==
    \A i \in 1..Len(files) :
        (files[i].opener \in {"save", "load"} /\ Ended(i)) => ~files[i].open

\* The half of C18 that holds: load closes its file on every way out.
C18_LoadClosesItsFile ==
    \A i \in 1..Len(files) :
        (files[i].opener = "load" /\ Ended(i)) => ~files[i].open

(***************************************************************************)
(* C19.  As stated: copy preserves the color-to-index mapping: for a       *)
(* non-raw palette p, after any getcolor calls that passed len(mode)-      *)
(* tuples and returned, the colors of p.copy() equals the colors of p, and *)
(* for every key t of p.colors, p.copy().getcolor(t) returns p.colors[t]   *)
(* and allocates nothing.                                                  *)
(***************************************************************************)
C19_CopyPreservesColors ==
    (last.op = "copy" /\ NonRaw(last.pal) /\ ghost[last.pal].clean)
    => /\ pals[last.ret].colors = pals[last.pal].colors
       /\ \A t \in DOMAIN pals[last.pal].colors :
             LET r == getcolor(pals[last.ret], heap, Tup(t))
             IN  /\ r.outcome = "ok"
                 /\ r.ret = pals[last.pal].colors[t]
                 /\ r.self.colors = pals[last.ret].colors

(***************************************************************************)
(* C20.  As stated: every failing getcolor is atomic: on a non-raw         *)
(* palette, also one built with an explicit size smaller than              *)
(* 256*len(mode), a getcolor call with a len(mode)-tuple that raises an    *)
(* error leaves colors, the buffer contents and dirty as they were.        *)
(***************************************************************************)
C20_FailingGetcolorIsAtomic ==
    [][(/\ GetColorStep
        /\ NonRaw(last'.pal)
        /\ last'.color.isTuple
        /\ Len(last'.color.items) = Len(pals[last'.pal].mode)
        /\ last'.outcome # "ok")
       => Untouched(last'.pal)]_vars

====
